---- MODULE Spec2Model ----
(***************************************************************************)
(* NYC Vehicle Collisions Dashboard (src/main.py): the Dash callbacks      *)
(* update_all, reset_filters and reset_search, over a small fixed dataset. *)
(* Text is modelled as a sequence of one-character strings, so that        *)
(* lower(), upper(), the "in" substring test, the year regular expression  *)
(* and int() are computed, not assumed.                                    *)
(***************************************************************************)
EXTENDS Integers, Sequences, FiniteSets, TLC

VARIABLES borough_filter, year_filter, vehicle_filter, factor_filter,
          injury_filter, search_box, n_clicks, figures, ret, dff,
          person_column, pressed

vars == <<borough_filter, year_filter, vehicle_filter, factor_filter,
          injury_filter, search_box, n_clicks, figures, ret, dff,
          person_column, pressed>>

(***************************************************************************)
(* Bounds of the model.                                                    *)
(***************************************************************************)
\* Largest number of words in a search text drawn as an input.
MaxWords == 2
\* Largest number of Generate Report presses in one run.
MaxClicks == 2

(***************************************************************************)
(* Characters and the string operations the code uses.                     *)
(***************************************************************************)
UpperCase == <<"A","B","C","D","E","F","G","H","I","J","K","L","M","N","O","P","Q","R","S","T","U","V","W","X","Y","Z">>
LowerCase == <<"a","b","c","d","e","f","g","h","i","j","k","l","m","n","o","p","q","r","s","t","u","v","w","x","y","z">>
Digits == <<"0","1","2","3","4","5","6","7","8","9">>

IndexOf(s, c) == CHOOSE i \in 1..Len(s) : s[i] = c
InSeq(s, c) == \E i \in 1..Len(s) : s[i] = c

\* str.lower() and str.upper(), character by character
LowerChar(c) == IF InSeq(UpperCase, c) THEN LowerCase[IndexOf(UpperCase, c)] ELSE c
UpperChar(c) == IF InSeq(LowerCase, c) THEN UpperCase[IndexOf(LowerCase, c)] ELSE c
Lower(s) == [i \in 1..Len(s) |-> LowerChar(s[i])]
Upper(s) == [i \in 1..Len(s) |-> UpperChar(s[i])]

\* "b in q" on Python strings: b occurs in q as a contiguous substring
Contains(q, b) ==
    \E i \in 0..(Len(q) - Len(b)) : \A j \in 1..Len(b) : q[i + j] = b[j]

\* \w of the re module (ASCII subset used here): letters, digits, underscore
IsWordChar(c) == InSeq(LowerCase, c) \/ InSeq(UpperCase, c) \/ InSeq(Digits, c) \/ c = "_"
IsDigit(c) == InSeq(Digits, c)
DigitValue(c) == IndexOf(Digits, c) - 1

\* \b at the gap before position i (1..Len+1) of q
WordBoundary(q, i) ==
    LET before == i > 1 /\ IsWordChar(q[i - 1])
        after  == i <= Len(q) /\ IsWordChar(q[i])
    IN  before # after

\* positions where \b(20\d{2})\b matches
YearMatchAt(q, i) ==
    /\ i + 3 <= Len(q)
    /\ q[i] = "2" /\ q[i + 1] = "0" /\ IsDigit(q[i + 2]) /\ IsDigit(q[i + 3])
    /\ WordBoundary(q, i)
    /\ WordBoundary(q, i + 4)

\* int() of the four matched digits
IntOfYear(q, i) ==
    1000 * DigitValue(q[i]) + 100 * DigitValue(q[i + 1])
        + 10 * DigitValue(q[i + 2]) + DigitValue(q[i + 3])

\* set(map(int, re.findall(r"\b(20\d{2})\b", q)))
FindYears(q) == {IntOfYear(q, i) : i \in {k \in 1..Len(q) : YearMatchAt(q, k)}}

(***************************************************************************)
(* Values of the dataset's text columns and the keywords of the search.    *)
(***************************************************************************)
K_bronx == <<"b","r","o","n","x">>
K_brooklyn == <<"b","r","o","o","k","l","y","n">>
K_manhattan == <<"m","a","n","h","a","t","t","a","n">>
K_queens == <<"q","u","e","e","n","s">>
K_staten_island == <<"s","t","a","t","e","n"," ","i","s","l","a","n","d">>
K_pedestrian == <<"p","e","d","e","s","t","r","i","a","n">>
K_cyclist == <<"c","y","c","l","i","s","t">>
K_motorist == <<"m","o","t","o","r","i","s","t">>

BRONX == <<"B","R","O","N","X">>
BROOKLYN == <<"B","R","O","O","K","L","Y","N">>
MANHATTAN == <<"M","A","N","H","A","T","T","A","N">>
QUEENS == <<"Q","U","E","E","N","S">>
STATEN_ISLAND == <<"S","T","A","T","E","N"," ","I","S","L","A","N","D">>
NEWARK == <<"N","E","W","A","R","K">>
BUS == <<"B","U","S">>
PASSENGER_CAR == <<"P","A","S","S","E","N","G","E","R"," ","C","A","R">>
UNSPECIFIED == <<"U","N","S","P","E","C","I","F","I","E","D">>
DRIVER_INATTENTION == <<"D","R","I","V","E","R"," ","I","N","A","T","T","E","N","T","I","O","N">>
INJURED == <<"I","N","J","U","R","E","D">>
KILLED == <<"K","I","L","L","E","D">>
PT_Pedestrian == <<"P","e","d","e","s","t","r","i","a","n">>
PT_Bicyclist == <<"B","i","c","y","c","l","i","s","t">>
PT_Occupant == <<"O","c","c","u","p","a","n","t">>
ATLANTIC_AVENUE == <<"A","T","L","A","N","T","I","C"," ","A","V","E","N","U","E">>
QUEENS_BOULEVARD == <<"Q","U","E","E","N","S"," ","B","O","U","L","E","V","A","R","D">>
BROADWAY == <<"B","R","O","A","D","W","A","Y">>

\* words of the search texts drawn as inputs
W_Brooklyn == <<"B","r","o","o","k","l","y","n">>
W_queensboro == <<"q","u","e","e","n","s","b","o","r","o">>
W_staten == <<"s","t","a","t","e","n">>
W_island == <<"i","s","l","a","n","d">>
W_2022 == <<"2","0","2","2">>
W_motorists == <<"m","o","t","o","r","i","s","t","s">>
W_xyzunknown123abc == <<"x","y","z","u","n","k","n","o","w","n","1","2","3","a","b","c">>

\* for b in ["bronx", "brooklyn", "manhattan", "queens", "staten island"]
BoroughKeywords == <<K_bronx, K_brooklyn, K_manhattan, K_queens, K_staten_island>>

\* mapping = {"pedestrian": ..., "cyclist": ..., "motorist": ...}, in insertion order
PersonKeys == <<K_pedestrian, K_cyclist, K_motorist>>
PersonCols == <<"number_of_pedestrians_injured", "number_of_cyclist_injured",
                "number_of_motorist_injured">>

\* person_column = "number_of_cyclist_injured"
InitialPersonColumn == "number_of_cyclist_injured"

(***************************************************************************)
(* The dataset df after loading: the derived column total_injuries is      *)
(* computed as the loader computes it.                                     *)
(***************************************************************************)
Raw(id, b, y, v, f, inj, pt, st, np, nped, ncyc, nmot) ==
    [id |-> id, borough |-> b, crash_year |-> y, vehicle_category |-> v,
     contributing_factor_vehicle_1 |-> f, person_injury |-> inj,
     person_type |-> pt, on_street_name |-> st,
     number_of_persons_injured |-> np,
     number_of_pedestrians_injured |-> nped,
     number_of_cyclist_injured |-> ncyc,
     number_of_motorist_injured |-> nmot]

WithTotals(r) ==
    [id |-> r.id, borough |-> r.borough, crash_year |-> r.crash_year,
     vehicle_category |-> r.vehicle_category,
     contributing_factor_vehicle_1 |-> r.contributing_factor_vehicle_1,
     person_injury |-> r.person_injury, person_type |-> r.person_type,
     on_street_name |-> r.on_street_name,
     number_of_persons_injured |-> r.number_of_persons_injured,
     number_of_pedestrians_injured |-> r.number_of_pedestrians_injured,
     number_of_cyclist_injured |-> r.number_of_cyclist_injured,
     number_of_motorist_injured |-> r.number_of_motorist_injured,
     total_injuries |-> r.number_of_persons_injured
                          + r.number_of_pedestrians_injured
                          + r.number_of_cyclist_injured
                          + r.number_of_motorist_injured]

RawRows ==
    { Raw(1, BROOKLYN, 2021, BUS, UNSPECIFIED, INJURED, PT_Pedestrian, ATLANTIC_AVENUE, 1, 1, 0, 0),
      Raw(2, BROOKLYN, 2022, PASSENGER_CAR, DRIVER_INATTENTION, INJURED, PT_Bicyclist, ATLANTIC_AVENUE, 2, 0, 1, 1),
      Raw(3, QUEENS, 2021, PASSENGER_CAR, UNSPECIFIED, KILLED, PT_Occupant, QUEENS_BOULEVARD, 1, 0, 0, 1),
      Raw(4, QUEENS, 2022, BUS, DRIVER_INATTENTION, INJURED, PT_Pedestrian, QUEENS_BOULEVARD, 3, 2, 0, 1),
      Raw(5, STATEN_ISLAND, 2022, PASSENGER_CAR, UNSPECIFIED, INJURED, PT_Occupant, BROADWAY, 1, 0, 0, 1),
      Raw(6, BRONX, 2021, BUS, DRIVER_INATTENTION, KILLED, PT_Bicyclist, BROADWAY, 0, 0, 0, 0) }

df == {WithTotals(r) : r \in RawRows}

(***************************************************************************)
(* Python values of the callback's arguments: a dropdown value is None or  *)
(* a list (order and duplicates do not matter to isin, so a set); the      *)
(* search box value is None or a string.                                   *)
(***************************************************************************)
None == [none |-> TRUE, items |-> {}]
List(S) == [none |-> FALSE, items |-> S]
NoText == [none |-> TRUE, text |-> <<>>]
Text(s) == [none |-> FALSE, text |-> s]

\* mutant of Truthy: "if borough is not None:", an empty list counts as a selection
Truthy_NotNone(v) == ~v.none

\* "if borough:" -- None and the empty list are falsy
Truthy(v) == ~v.none /\ v.items # {}

\* len(query) >= 3
MinQueryLen == 3

\* "if query and len(query) >= 3:"
SearchActive(query) ==
    ~query.none /\ Len(query.text) > 0 /\ Len(query.text) >= MinQueryLen

(***************************************************************************)
(* update_all, step by step.                                               *)
(***************************************************************************)
\* dff = dff[dff[col].isin(value)] under "if value:"
ApplyIsin(rows, col, value) ==
    IF Truthy(value) THEN {r \in rows : r[col] \in value.items} ELSE rows

\* the five dropdown filters, applied one after the other
DropdownFilter(rows, borough, year, vehicle, factor, injury) ==
    LET d1 == ApplyIsin(rows, "borough", borough)
        d2 == ApplyIsin(d1, "crash_year", year)
        d3 == ApplyIsin(d2, "vehicle_category", vehicle)
        d4 == ApplyIsin(d3, "contributing_factor_vehicle_1", factor)
    IN  ApplyIsin(d4, "person_injury", injury)

\* the whitespace-delimited tokens of a text (str.split())
Tokens(q) ==
    { SubSeq(q, i, j) : <<i, j>> \in
        { p \in (1..Len(q)) \X (1..Len(q)) :
            /\ p[1] <= p[2]
            /\ \A k \in p[1]..p[2] : q[k] # " "
            /\ (p[1] = 1 \/ q[p[1] - 1] = " ")
            /\ (p[2] = Len(q) \/ q[p[2] + 1] = " ") } }

\* mutant of BoroughMentioned: a borough counts only as a whole token
BoroughMentioned_Token(q, b) == b \in Tokens(q)

\* "if b in q:" of the borough loop
BoroughMentioned(q, b) == Contains(q, b)

\* for b in [...]: if b in q: dff = dff[dff["borough"] == b.upper()]
RECURSIVE BoroughLoop(_, _, _)
BoroughLoop(rows, q, i) ==
    IF i > Len(BoroughKeywords) THEN rows
    ELSE LET b == BoroughKeywords[i]
             next == IF BoroughMentioned(q, b)
                       THEN {r \in rows : r.borough = Upper(b)}
                       ELSE rows
         IN  BoroughLoop(next, q, i + 1)

\* years = re.findall(...); if years: dff = dff[dff["crash_year"].isin(map(int, years))]
YearSearch(rows, q) ==
    LET years == FindYears(q)
    IN  IF years # {} THEN {r \in rows : r.crash_year \in years} ELSE rows

\* "if key in q:" of the person type loop
PersonMentioned(q, key) == Contains(q, key)

\* for key, col in mapping.items(): if key in q: person_column = col
RECURSIVE PersonLoop(_, _, _)
PersonLoop(col, q, i) ==
    IF i > Len(PersonKeys) THEN col
    ELSE PersonLoop(IF PersonMentioned(q, PersonKeys[i]) THEN PersonCols[i] ELSE col,
                    q, i + 1)

\* the text columns a free-text clause would look into
TextColumns == {"borough", "on_street_name", "vehicle_category", "person_type",
                "person_injury", "contributing_factor_vehicle_1"}

\* some text column of row r holds term t, case-insensitively
RowHasTerm(r, t) == \E c \in TextColumns : Contains(Lower(r[c]), Lower(t))

\* mutant of SearchFilter: the words of the text are also matched against the
\* text columns, and rows holding none of them are dropped
SearchFilter_WithFreeText(rows, query) ==
    IF SearchActive(query)
      THEN LET q == Lower(query.text)
               kept == YearSearch(BoroughLoop(rows, q, 1), q)
           IN  {r \in kept : \E t \in Tokens(q) : RowHasTerm(r, t)}
      ELSE rows

\* the whole search block: the rows it keeps
SearchFilter(rows, query) ==
    IF SearchActive(query)
      THEN LET q == Lower(query.text)
           IN  YearSearch(BoroughLoop(rows, q, 1), q)
      ELSE rows

\* the whole search block: the person column it leaves
ResolvePersonColumn(query) ==
    IF SearchActive(query)
      THEN PersonLoop(InitialPersonColumn, Lower(query.text), 1)
      ELSE InitialPersonColumn

\* the rows update_all draws its charts from
FilteredRows(borough, year, vehicle, factor, injury, query) ==
    SearchFilter(DropdownFilter(df, borough, year, vehicle, factor, injury), query)

(***************************************************************************)
(* Figures. A figure is its title, the ids of the rows it aggregates, the  *)
(* column on its value axis and, for the borough bar chart, the sums.      *)
(***************************************************************************)
\* the ten Output(...) of the update_all callback
NumOutputs == 10
\* return [empty] * 9
EmptyCopies == 9

FigTitles ==
    <<"Total Injuries per Year Across Boroughs",
      "Top 10 Contributing Factors",
      "Injuries by Borough (Selected Person Type)",
      "Crash Frequency by Day of Week",
      "Crash Severity by Vehicle Category",
      "Crash Involvement by Gender Across Boroughs",
      "Hourly Average Injuries by Road User Type",
      "Crash Severity by Vehicle Category and Hour of Day",
      "Age Group vs Injury Severity Across Person Types",
      "Top 15 Streets by Crash Severity">>

FigValueColumn(col) ==
    <<"total_injuries", "count", col, "crashes", "severity", "count", "avg",
      "severity", "count", "count">>

RECURSIVE SumOf(_, _)
SumOf(rows, col) ==
    IF rows = {} THEN 0
    ELSE LET r == CHOOSE x \in rows : TRUE
         IN  r[col] + SumOf(rows \ {r}, col)

\* dff.groupby("borough")[person_column].sum()
BarByBorough(rows, col) ==
    [b \in {r.borough : r \in rows} |-> SumOf({r \in rows : r.borough = b}, col)]

Ids(rows) == {r.id : r \in rows}

\* px.scatter(title="No data available for selected filters / search.")
EmptyFigure ==
    [title |-> "No data available for selected filters / search.",
     rows |-> {}, y |-> "", bars |-> <<>>]

Figure(i, rows, col) ==
    [title |-> FigTitles[i], rows |-> Ids(rows), y |-> FigValueColumn(col)[i],
     bars |-> IF i = 3 THEN BarByBorough(rows, col) ELSE <<>>]

\* the value update_all returns
ReturnValue(rows, col) ==
    IF rows = {} THEN [i \in 1..EmptyCopies |-> EmptyFigure]
    ELSE [i \in 1..NumOutputs |-> Figure(i, rows, col)]

\* The callback's return value reaches the ten graphs only when it has one
\* value per declared Output; otherwise the framework rejects the update and
\* the graphs keep what they showed.
Displayed(old, value) == IF Len(value) = NumOutputs THEN value ELSE old

\* the layout's graphs before any callback has run
NoFigure == [title |-> "", rows |-> {}, y |-> "", bars |-> <<>>]
LayoutFigures == [i \in 1..NumOutputs |-> NoFigure]

(***************************************************************************)
(* Inputs.                                                                 *)
(***************************************************************************)
Words == {K_queens, W_Brooklyn, W_queensboro, W_staten, W_island, W_2022,
          K_pedestrian, K_cyclist, W_motorists, W_xyzunknown123abc}

RECURSIVE JoinWords(_)
JoinWords(ws) ==
    IF Len(ws) = 0 THEN <<>>
    ELSE IF Len(ws) = 1 THEN ws[1]
    ELSE ws[1] \o <<" ">> \o JoinWords(Tail(ws))

WordLists == UNION {[1..n -> Words] : n \in 0..MaxWords}

\* the search texts update_all is called with: None, "" and words joined by blanks
SearchTexts == {NoText} \cup {Text(JoinWords(ws)) : ws \in WordLists}

\* dropdown values update_all is called with (State values of the request)
BoroughValues == {None, List({}), List({BROOKLYN}), List({QUEENS}), List({NEWARK})}
YearValues == {None, List({2021}), List({2022})}
VehicleValues == {None, List({BUS})}
FactorValues == {None, List({UNSPECIFIED})}
InjuryValues == {None, List({INJURED})}

\* what a user of the page can pick: the dropdowns offer the dataset's values
BoroughPicks == {List({}), List({BROOKLYN}), List({QUEENS})}
YearPicks == {List({2021})}
VehiclePicks == {List({BUS})}
FactorPicks == {List({UNSPECIFIED})}
InjuryPicks == {List({INJURED})}
TypedTexts == {Text(<<>>), Text(K_queens), Text(K_cyclist)}

(***************************************************************************)
(* State and callbacks.                                                    *)
(***************************************************************************)
\* the State(...) values a firing of update_all receives
Snapshot ==
    [borough |-> borough_filter, year |-> year_filter, vehicle |-> vehicle_filter,
     factor |-> factor_filter, injury |-> injury_filter, query |-> search_box]

\* update_all(n, borough, year, vehicle, factor, injury, query) and what the
\* page shows afterwards
update_all ==
    /\ dff' = FilteredRows(borough_filter, year_filter, vehicle_filter,
                           factor_filter, injury_filter, search_box)
    /\ person_column' = ResolvePersonColumn(search_box)
    /\ ret' = ReturnValue(dff', person_column')
    /\ figures' = Displayed(figures, ret')
    /\ pressed' = <<Snapshot>>

\* pressing "Generate Report": Input("generate_report", "n_clicks")
GenerateReport ==
    /\ n_clicks < MaxClicks
    /\ n_clicks' = n_clicks + 1
    /\ update_all
    /\ UNCHANGED <<borough_filter, year_filter, vehicle_filter, factor_filter,
                   injury_filter, search_box>>

\* reset_filters: return None, None, None, None, None
reset_filters ==
    /\ borough_filter' = None
    /\ year_filter' = None
    /\ vehicle_filter' = None
    /\ factor_filter' = None
    /\ injury_filter' = None
    /\ UNCHANGED <<search_box, n_clicks, figures, ret, dff, person_column, pressed>>

\* reset_search: return ""
reset_search ==
    /\ search_box' = Text(<<>>)
    /\ UNCHANGED <<borough_filter, year_filter, vehicle_filter, factor_filter,
                   injury_filter, n_clicks, figures, ret, dff, person_column, pressed>>

\* the user changes a dropdown or the search box: no callback listens to them
\* (they are State, not Input, of update_all)
SelectBorough ==
    /\ \E v \in BoroughPicks : borough_filter' = v
    /\ UNCHANGED <<year_filter, vehicle_filter, factor_filter, injury_filter,
                   search_box, n_clicks, figures, ret, dff, person_column, pressed>>

SelectYear ==
    /\ \E v \in YearPicks : year_filter' = v
    /\ UNCHANGED <<borough_filter, vehicle_filter, factor_filter, injury_filter,
                   search_box, n_clicks, figures, ret, dff, person_column, pressed>>

SelectVehicle ==
    /\ \E v \in VehiclePicks : vehicle_filter' = v
    /\ UNCHANGED <<borough_filter, year_filter, factor_filter, injury_filter,
                   search_box, n_clicks, figures, ret, dff, person_column, pressed>>

SelectFactor ==
    /\ \E v \in FactorPicks : factor_filter' = v
    /\ UNCHANGED <<borough_filter, year_filter, vehicle_filter, injury_filter,
                   search_box, n_clicks, figures, ret, dff, person_column, pressed>>

SelectInjury ==
    /\ \E v \in InjuryPicks : injury_filter' = v
    /\ UNCHANGED <<borough_filter, year_filter, vehicle_filter, factor_filter,
                   search_box, n_clicks, figures, ret, dff, person_column, pressed>>

EditSearch ==
    /\ \E t \in TypedTexts : search_box' = t
    /\ UNCHANGED <<borough_filter, year_filter, vehicle_filter, factor_filter,
                   injury_filter, n_clicks, figures, ret, dff, person_column, pressed>>

\* The page after loading: no dropdown has a value, the search box has none,
\* and the framework has fired update_all once (it is not declared with
\* prevent_initial_call), with n_clicks = 0.
Init ==
    /\ borough_filter = None
    /\ year_filter = None
    /\ vehicle_filter = None
    /\ factor_filter = None
    /\ injury_filter = None
    /\ search_box = NoText
    /\ n_clicks = 0
    /\ dff = FilteredRows(None, None, None, None, None, NoText)
    /\ person_column = ResolvePersonColumn(NoText)
    /\ ret = ReturnValue(dff, person_column)
    /\ figures = Displayed(LayoutFigures, ret)
    /\ pressed = <<[borough |-> None, year |-> None, vehicle |-> None,
                    factor |-> None, injury |-> None, query |-> NoText]>>

Next ==
    \/ GenerateReport
    \/ reset_filters
    \/ reset_search
    \/ SelectBorough
    \/ SelectYear
    \/ SelectVehicle
    \/ SelectFactor
    \/ SelectInjury
    \/ EditSearch

Spec == Init /\ [][Next]_vars

\* One request: update_all called with arguments drawn from the input sets,
\* before it has returned anything.
InitCall ==
    /\ borough_filter \in BoroughValues
    /\ year_filter \in YearValues
    /\ vehicle_filter \in VehicleValues
    /\ factor_filter \in FactorValues
    /\ injury_filter \in InjuryValues
    /\ search_box \in SearchTexts
    /\ n_clicks = 0
    /\ dff = {}
    /\ person_column = ""
    /\ ret = <<>>
    /\ figures = LayoutFigures
    /\ pressed = <<>>

\* the framework calls update_all(n, ...) for the request
Request ==
    /\ pressed = <<>>
    /\ update_all
    /\ UNCHANGED <<borough_filter, year_filter, vehicle_filter, factor_filter,
                   injury_filter, search_box, n_clicks>>

NextCall == Request

SpecCall == InitCall /\ [][NextCall]_vars

(***************************************************************************)
(* Vocabulary of the properties.                                           *)
(***************************************************************************)
\* update_all has been called and has returned
Called == pressed # <<>>
\* the arguments of the most recent call
Arg == pressed[1]

\* a dropdown argument that carries a selection
Selected(v) == v.none = FALSE /\ v.items # {}
Picked(v) == IF Selected(v) THEN v.items ELSE {}

\* the aggregate injury column of the dataset
AggregateColumn == "total_injuries"

Range(f) == {f[i] : i \in DOMAIN f}

\* the person types a text names, as indices into the mapping
NamedIn(q) == {i \in 1..Len(PersonKeys) : Contains(q, PersonKeys[i])}

PersonNamed(query) ==
    IF SearchActive(query)
      THEN UNION {NamedIn(q) : q \in {Lower(query.text)}}
      ELSE {}

\* the boroughs and years a text names
TextBoroughs(query) ==
    IF SearchActive(query)
      THEN {Upper(BoroughKeywords[i]) : i \in
              {k \in 1..Len(BoroughKeywords) :
                   Contains(Lower(query.text), BoroughKeywords[k])}}
      ELSE {}

IsYearToken(t) ==
    Len(t) = 4 /\ t[1] = "2" /\ t[2] = "0" /\ IsDigit(t[3]) /\ IsDigit(t[4])

TextYears(query) ==
    IF SearchActive(query)
      THEN {IntOfYear(t, 1) : t \in {u \in Tokens(Lower(query.text)) : IsYearToken(u)}}
      ELSE {}

\* a row passes a dropdown argument: no selection, or its value is selected
Passes(r, col, v) == Selected(v) => r[col] \in v.items

\* the rows that pass the dropdown arguments other than borough and year
PassesOthers(r, a) ==
    /\ Passes(r, "vehicle_category", a.vehicle)
    /\ Passes(r, "contributing_factor_vehicle_1", a.factor)
    /\ Passes(r, "person_injury", a.injury)

\* the rows that pass all five dropdown arguments
PassesDropdowns(r, a) ==
    /\ Passes(r, "borough", a.borough)
    /\ Passes(r, "crash_year", a.year)
    /\ PassesOthers(r, a)

\* the values of a column that occur in the dataset
Vocabulary(col) == {r[col] : r \in df}

(***************************************************************************)
(* C1. For a search text of length >= 3: naming exactly one person type    *)
(* makes the metric column that type's injury column; naming two or more   *)
(* makes it the default aggregate column, not any single type's column.    *)
(* (Stated as claimed; the code takes the last named type of the mapping.) *)
(***************************************************************************)
C1_MetricByPersonType ==
    (Called /\ SearchActive(Arg.query)) =>
        LET named == PersonNamed(Arg.query)
        IN  /\ \A i \in named : named = {i} => person_column = PersonCols[i]
            /\ Cardinality(named) >= 2 =>
                  /\ person_column = AggregateColumn
                  /\ person_column \notin Range(PersonCols)

(***************************************************************************)
(* C2. When the search text names no person type (also when it is empty,   *)
(* absent or shorter than 3 characters), the metric column is the          *)
(* aggregate injury column and not one person type's column.               *)
(* (Stated as claimed; the code starts from the cyclist column.)           *)
(***************************************************************************)
C2_DefaultMetricIsAggregate ==
    (Called /\ PersonNamed(Arg.query) = {}) =>
        /\ person_column = AggregateColumn
        /\ person_column \notin Range(PersonCols)

(***************************************************************************)
(* C3. When a column (borough, crash year) is restricted both by its       *)
(* dropdown and by the search text, the rows kept are those whose value    *)
(* is in the union of the dropdown values and the values named in the      *)
(* text. (Stated as claimed; the code applies one filter after the other.) *)
(***************************************************************************)
UnionClause(sel, fromText, value) ==
    LET allowed == Picked(sel) \cup fromText
    IN  allowed = {} \/ value \in allowed

UnionRows(a) ==
    {r \in df : /\ UnionClause(a.borough, TextBoroughs(a.query), r.borough)
                /\ UnionClause(a.year, TextYears(a.query), r.crash_year)
                /\ PassesOthers(r, a)}

C3_DropdownAndSearchUnioned ==
    (/\ Called
     /\ \/ Selected(Arg.borough) /\ TextBoroughs(Arg.query) # {}
        \/ Selected(Arg.year) /\ TextYears(Arg.query) # {})
      => dff = UnionRows(Arg)

(***************************************************************************)
(* C4. A borough selection holding only values outside the dataset's       *)
(* vocabulary is dropped: the rows and the returned value are those of a   *)
(* call without a borough selection.                                       *)
(* (Stated as claimed; the code filters by the unknown value.)             *)
(***************************************************************************)
C4_UnknownSelectionDropped ==
    (/\ Called
     /\ Selected(Arg.borough)
     /\ Arg.borough.items \cap Vocabulary("borough") = {})
      => LET rows == FilteredRows(None, Arg.year, Arg.vehicle, Arg.factor,
                                  Arg.injury, Arg.query)
         IN  /\ dff = rows
             /\ ret = ReturnValue(rows, person_column)

(***************************************************************************)
(* C5. Every return of update_all carries one figure per declared output;  *)
(* on an empty row set these are ten "no data" placeholder figures.        *)
(* (Stated as claimed; the code returns nine placeholders.)                *)
(***************************************************************************)
C5_OneFigurePerOutput ==
    Called =>
        /\ Len(ret) = NumOutputs
        /\ dff = {} => \A i \in 1..NumOutputs : ret[i] = EmptyFigure

(***************************************************************************)
(* C6 (as claimed). A search text with no recognisable token and no valid  *)
(* year keeps only the rows in which some text column holds a residual     *)
(* term as a case-insensitive substring; with no residual terms it adds    *)
(* no restriction.                                                         *)
(***************************************************************************)
\* a token one of the vocabularies classifies: a year, a borough, a vehicle
\* category, an injury type, a person type or a contributing factor
Recognisable(t) ==
    \/ IsYearToken(t)
    \/ Upper(t) \in Vocabulary("borough") \cup Vocabulary("vehicle_category")
                      \cup Vocabulary("person_injury")
                      \cup Vocabulary("contributing_factor_vehicle_1")
    \/ t \in Range(PersonKeys)

ResidualTerms(query) ==
    IF query.none THEN {}
    ELSE {t \in Tokens(Lower(query.text)) : ~Recognisable(t)}

ResidualOnly(query) ==
    /\ ~query.none
    /\ ResidualTerms(query) # {}
    /\ ResidualTerms(query) = Tokens(Lower(query.text))

DropdownRows(a) == {r \in df : PassesDropdowns(r, a)}

NothingFound(query) ==
    \/ ~SearchActive(query)
    \/ \A q \in {Lower(query.text)} :
          /\ \A i \in 1..Len(BoroughKeywords) : ~Contains(q, BoroughKeywords[i])
          /\ FindYears(q) = {}

C7_TextYearAdmitted ==
    (Called /\ SearchActive(Arg.query)) =>
        \A y \in TextYears(Arg.query) :
            \A r \in BoroughLoop(DropdownFilter(df, Arg.borough, None, Arg.vehicle,
                                                Arg.factor, Arg.injury),
                                 Lower(Arg.query.text), 1) :
                r.crash_year = y => r \in dff

SubstringMatch(q, found, years, named) ==
    /\ \A i \in found : \A r \in dff : r.borough = Upper(BoroughKeywords[i])
    /\ found = {} =>
          dff = {r \in DropdownRows(Arg) : years = {} \/ r.crash_year \in years}
    /\ IF named = {}
         THEN person_column = "number_of_cyclist_injured"
         ELSE \E i \in named : person_column = PersonCols[i]

FoundBoroughs(q) == {i \in 1..Len(BoroughKeywords) : Contains(q, BoroughKeywords[i])}

NoSelection(a) ==
    /\ ~Selected(a.borough) /\ ~Selected(a.year) /\ ~Selected(a.vehicle)
    /\ ~Selected(a.factor) /\ ~Selected(a.injury)
    /\ (a.query.none \/ a.query.text = <<>>)

C9_NoFilterSelectsAll ==
    (Called /\ NoSelection(Arg)) =>
        /\ dff = df
        /\ Len(ret) = NumOutputs
        /\ \A i \in 1..Len(ret) : ret[i].rows = {r.id : r \in df}

\* a call with an emptied borough dropdown and "" in the search box
C9_Witness ==
    /\ Called
    /\ NoSelection(Arg)
    /\ Arg.borough = List({})
    /\ Arg.query = Text(<<>>)
    /\ dff = df
    /\ Len(ret) = NumOutputs

(***************************************************************************)
(* C10. In any sequence of UI events the ten figures change only on a      *)
(* Generate Report press; reset_filters changes only the five dropdown     *)
(* values and reset_search only the search box value; and the figures      *)
(* shown are those of the filter and search values of the most recent      *)
(* press. (Stated as claimed; a press whose row set is empty returns nine  *)
(* figures for ten outputs, and the page keeps the figures it had.)        *)
(***************************************************************************)
ExpectedFigures(a) ==
    LET rows == FilteredRows(a.borough, a.year, a.vehicle, a.factor, a.injury,
                             a.query)
        col  == ResolvePersonColumn(a.query)
    IN  [i \in 1..NumOutputs |->
            IF rows = {} THEN EmptyFigure ELSE Figure(i, rows, col)]

C10_FiguresFollowGenerate ==
    [][ /\ figures' # figures => n_clicks' = n_clicks + 1
        /\ n_clicks' = n_clicks => pressed' = pressed
        /\ reset_filters => UNCHANGED <<search_box, n_clicks, figures>>
        /\ reset_search => UNCHANGED <<borough_filter, year_filter, vehicle_filter,
                                       factor_filter, injury_filter, n_clicks,
                                       figures>>
        /\ figures' = ExpectedFigures(pressed'[1]) ]_vars

(***************************************************************************)
(* C11. When the search text names several boroughs, the borough           *)
(* restriction is a membership test over all of them: the rows kept are    *)
(* the rows of any named borough that pass the other restrictions, so      *)
(* naming two boroughs does not by itself empty the row set.               *)
(* (Stated as claimed; the code filters by equality once per named         *)
(* borough, each time on what the previous one left.)                      *)
(***************************************************************************)
C11_NamedBoroughsAreMembership ==
    (Called /\ SearchActive(Arg.query)) =>
        \A a \in {Arg} : \A q \in {Lower(a.query.text)} :
            \A named \in {TextBoroughs(a.query)} :
                Cardinality(named) >= 2 =>
                    dff = {r \in YearSearch(DropdownRows(a), q) : r.borough \in named}

====
